---- MODULE Spec2Model ----
(***************************************************************************)
(* Execution session engine of backend/core/jupyter_manager.py:            *)
(* JupyterSession (start, execute_code, shutdown) and JupyterManager       *)
(* (create_session, create_multi_session, get_session, close_session).     *)
(*                                                                         *)
(* A session owns one kernel.  The kernel publishes messages on the iopub  *)
(* channel; execute_code reads them with                                   *)
(*     await asyncio.wait_for(asyncio.to_thread(get_iopub_msg), 0.5)       *)
(* A wait that times out leaves its worker thread blocked in               *)
(* get_iopub_msg (a thread cannot be cancelled); the thread takes the next *)
(* message that arrives and its result is dropped.  Which of the blocked   *)
(* threads a message wakes is not determined by the program, so it is a    *)
(* nondeterministic choice here (GhostRead / ReadMsg).                     *)
(*                                                                         *)
(* Time is counted per execute_code call in half seconds: a call's clock   *)
(* advances by one with every read wait that times out.                    *)
(***************************************************************************)
EXTENDS Integers, Sequences, FiniteSets, TLC

\* ------------------------------------------------------------------ bounds
\* number of execute_code calls (msg ids) in one behaviour
MaxExecs == 1
\* number of abandoned reader threads that are tracked (saturating)
MaxGhosts == 1
\* a kernel that publishes at all publishes within this many half seconds of a
\* call's start; later it is silent (hung)
MaxLatency == 3
\* tables in one create_multi_session call
MaxTables == 2

\* seconds of the event loop's clock a behaviour covers
MaxClock == 3
\* messages a thread of the kernel keeps ahead of the reader
MaxBacklog == 2

\* max_age of a cleanup_old_sessions call
MaxAges == {1, 2}

\* -------------------------------------------------------- program constants
\* execute_code(code, timeout=600)
DefaultTimeout == 600
\* AnalysisAgent.__init__: self.max_retries = 3
max_retries == 3
\* asyncio.wait_for(..., timeout=0.5): read waits per second
ReadsPerSecond == 2
\* int(current_time - start_time) % 10 < 0.5
HealthPeriod == 10
\* for wait_round in range(50)
DrainRounds == 50
\* if empty_rounds >= 10 and total_collected > 0
EmptyAfterCollected == 10
\* if empty_rounds >= 15
EmptyRoundsExit == 15
\* if data_size_mb > 10
ThresholdMB == 10
\* settings.kernel_startup_timeout, seconds
StartupTimeout == 30
\* await asyncio.sleep(0.1) in _wait_for_ready, tenths of a second
ProbeSleep == 1
\* get_iopub_msg(timeout=1) in _wait_for_ready, tenths of a second
ProbeWait == 10

\* the callers of the engine (API handlers, agents), each one coroutine
Procs == {"c1", "c2"}
\* the session ids uuid4() can hand out
SessionIds == {"s1", "s2"}
\* timeouts (seconds) an API caller passes
CallerTimeouts == {1}

VARIABLES
    sessions,   \* JupyterManager.sessions: set of registered session ids
    slog,       \* [session -> what the last shutdown() of the session did, in order]
    order,      \* the keys of JupyterManager.sessions in insertion order
    now,        \* asyncio.get_event_loop().time(), the clock of created_at
    created,    \* [session -> created_at]
    reply,      \* [proc -> the outcome of the caller's last registry call]
    kid,        \* [session -> the kernel process start_kernel launched for it]
    nextKid,    \* the next kernel process
    used,       \* session ids uuid4() has handed out
    chan,       \* [session -> BOOLEAN] the client channels are running
    files,      \* temporary files that exist
    nextFile,   \* the next name NamedTemporaryFile hands out
    received,   \* [session -> Seq(stage)] what create calls submitted to the kernel
    op,         \* [proc -> the manager operation the caller runs]
    tables,     \* [proc -> tables_data of the create call]
    tix,        \* [proc -> index of the table being loaded, 0: environment only]
    stime,      \* [proc -> tenths of a second spent in _wait_for_ready]
    fail,       \* [proc -> where the create call raised]
    made,       \* [proc -> tables the create call wrote a temporary file for]
    stages,     \* [proc -> error kinds of the create call's execute_code results]
    kup,        \* [session -> BOOLEAN] the kernel has come up and handles requests
    kalive,     \* [session -> BOOLEAN] kernel_manager.is_alive()
    kreq,       \* [session -> Seq(request)] execute requests the kernel has not finished
    kpos,       \* [session -> Nat] messages of the head request already published
    kcount,     \* [session -> Nat] the kernel's execution counter
    iopub,      \* [session -> Seq(msg)] messages published and not yet received
    ghosts,     \* [session -> Nat] reader threads abandoned by a timed-out wait_for
    nextId,     \* the next msg id kernel_client.execute returns
    budget,     \* execute_code calls the callers may still start
    pc,         \* [proc -> control point]
    sess,       \* [proc -> session the call works on]
    msgid,      \* [proc -> msg id of the submitted code]
    timeout,    \* [proc -> timeout argument, seconds]
    elapsed,    \* [proc -> half seconds since start_time]
    outputs,    \* [proc -> the outputs dictionary]
    drain,      \* [proc -> wait_round, empty_rounds, total_collected]
    exit,       \* [proc -> the way the current execute_code left its loop]
    prev,       \* [proc -> the way the caller's previous execute_code left its loop]
    code,       \* [proc -> the code argument]
    foreign,    \* [proc -> what the current execute_code took from messages whose
                \*          parent is another submission: "output", "idle"]
    agent       \* an AnalysisAgent: status, current_retry, steps, and where run() is

\* the registry and what only the manager's create calls change
rvars == <<order, now, created, reply, kid, nextKid>>
mvars == <<sessions, used, chan, nextFile, received, op, tables, tix, stime, fail,
           made, stages, rvars, slog>>
kvars == <<kup, kalive, kreq, kpos, kcount>>
pvars == <<pc, sess, msgid, timeout, elapsed, outputs, drain, exit, prev, code, foreign>>

vars == <<mvars, files, kvars, iopub, ghosts, nextId, budget, pvars, agent>>

\* ---------------------------------------------------------------- messages
NoSession == "none"
NoId == 0
NoKernel == 0
NoFile == 0

\* outputs['error'] = None
NoError == [ename |-> "None", evalue |-> "None", traceback |-> "None"]
\* outputs['execution_count'] = None
NoCount == 0

EmptyOutputs ==
    [stdout |-> <<>>, stderr |-> <<>>, data |-> <<>>,
     error |-> NoError, execution_count |-> NoCount]

NoDrain == [wait_round |-> 0, empty_rounds |-> 0, total_collected |-> 0]

\* ------------------------------------------------------------------ kernel
\* The code a caller can submit.  A user program is known by what it makes the
\* kernel publish between the busy and the idle status.
Programs == {"pass", "print2", "raise", "expr", "image", "loop", "late"}

UserCode(prog) == [kind |-> "user", prog |-> prog, file |-> NoFile, valid |-> TRUE]

\* _wait_for_ready: execute("1+1", silent=True, store_history=False)
ProbeCode == [kind |-> "probe", prog |-> "none", file |-> NoFile, valid |-> TRUE]

\* create_session: imports, then the data load (from `file` unless NoFile)
InitCode(file, valid) == [kind |-> "init", prog |-> "none", file |-> file, valid |-> valid]

\* create_multi_session: imports only
EnvCode == [kind |-> "env", prog |-> "none", file |-> NoFile, valid |-> TRUE]

\* create_multi_session: the load of one table (from `file` unless NoFile)
LoadCode(file, valid) == [kind |-> "load", prog |-> "none", file |-> file, valid |-> valid]

Item(mt, sub, v) == [op |-> "msg", mt |-> mt, sub |-> sub, v |-> v]
Hang == [op |-> "hang", mt |-> "", sub |-> "", v |-> ""]

Unlink(file) == [op |-> "unlink", mt |-> "", sub |-> "", v |-> file]

Busy == Item("status", "busy", "")
Idle == Item("status", "idle", "")
Input == Item("execute_input", "", "")

\* what the kernel publishes for a user program, in order
ProgramBody(prog) ==
    CASE prog = "pass"   -> <<>>
      [] prog = "print2" -> <<Item("stream", "stdout", "w1"), Item("stream", "stdout", "w2")>>
      [] prog = "raise"  -> <<Item("stream", "stdout", "w1"), Item("error", "", "ZeroDivisionError")>>
      [] prog = "expr"   -> <<Item("execute_result", "", "text/plain")>>
      [] prog = "image"  -> <<Item("display_data", "", "image/png")>>
      [] prog = "loop"   -> <<Hang>>
      [] prog = "late"   -> <<>>

\* output of a background thread of the program, published after the idle status
ProgramTail(prog) ==
    IF prog = "late" THEN <<Item("display_data", "", "image/png")>> ELSE <<>>

\* pd.read_json on the payload, then os.unlink of the temporary file; a payload
\* that read_json rejects raises before the unlink
LoadBody(c) ==
    IF ~c.valid THEN <<Item("error", "", "ValueError")>>
    ELSE IF c.file # NoFile THEN <<Unlink(c.file)>>
    ELSE <<>>

\* what the kernel does with a request, in order
Script(c) ==
    CASE c.kind = "probe" -> <<Busy, Idle>>
      [] c.kind = "init"  ->
            <<Busy, Input, Item("stream", "stderr", "imports")>> \o LoadBody(c) \o <<Idle>>
      [] c.kind = "env"   -> <<Busy, Input, Idle>>
      [] c.kind = "load"  -> <<Busy, Input>> \o LoadBody(c) \o <<Idle>>
      [] OTHER -> <<Busy, Input>> \o ProgramBody(c.prog) \o <<Idle>> \o ProgramTail(c.prog)

TenthsPerSecond == 10

\* the callers that wait on the session's channel, in execute_code and in start
Readers(s) == {p \in Procs : sess[p] = s /\ pc[p] \in {"top", "read"}}

Starters(s) == {p \in Procs : sess[p] = s /\ pc[p] \in {"start", "probe"}}

\* the kernel acts (comes up, publishes, dies) only while no caller has waited
\* on it longer than MaxLatency
Responsive(s) ==
    /\ \A p \in Readers(s) : elapsed[p] <= MaxLatency
    /\ \A p \in Starters(s) : stime[p] * ReadsPerSecond <= MaxLatency * TenthsPerSecond

\* the kernel handles the head request: it publishes the next message of its script
KernelStep(s) ==
    /\ kalive[s] /\ kup[s]
    /\ kreq[s] # <<>>
    /\ Responsive(s)
    /\ LET r == Head(kreq[s])
           items == Script(r.code)
           it == items[kpos[s] + 1]
           last == kpos[s] + 1 = Len(items)
           m == [mt |-> it.mt, sub |-> it.sub, v |-> it.v, parent |-> r.id,
                 n |-> kcount[s] + 1, src |-> kid[s], form |-> "ok"]
       IN /\ it.op # "hang"
          /\ iopub' = [iopub EXCEPT ![s] = IF it.op = "msg" THEN Append(@, m) ELSE @]
          /\ files' = IF it.op = "unlink" THEN files \ {it.v} ELSE files
          /\ kpos' = [kpos EXCEPT ![s] = IF last THEN 0 ELSE @ + 1]
          /\ kreq' = [kreq EXCEPT ![s] = IF last THEN Tail(@) ELSE @]
          /\ kcount' = [kcount EXCEPT ![s] =
                            IF last /\ r.code.kind # "probe" THEN @ + 1 ELSE @]
    /\ UNCHANGED <<agent, mvars, kup, kalive, ghosts, nextId, budget, pvars>>

\* the kernel process launched by start_kernel comes up
KernelBoot(s) ==
    /\ kalive[s] /\ ~kup[s]
    /\ Responsive(s)
    /\ kup' = [kup EXCEPT ![s] = TRUE]
    /\ UNCHANGED <<agent, mvars, files, kalive, kreq, kpos, kcount, iopub, ghosts, nextId,
                   budget, pvars>>

\* the kernel process dies (out of memory, killed)
KernelDie(s) ==
    /\ kalive[s]
    /\ Responsive(s)
    /\ kalive' = [kalive EXCEPT ![s] = FALSE]
    /\ UNCHANGED <<agent, mvars, files, kup, kreq, kpos, kcount, iopub, ghosts, nextId,
                   budget, pvars>>

\* a reader thread left behind by a timed-out wait receives the next message;
\* its result goes to a cancelled future and is dropped
GhostRead(s) ==
    /\ ghosts[s] > 0
    /\ iopub[s] # <<>>
    /\ iopub' = [iopub EXCEPT ![s] = Tail(@)]
    /\ ghosts' = [ghosts EXCEPT ![s] = @ - 1]
    /\ UNCHANGED <<agent, mvars, files, kvars, nextId, budget, pvars>>

\* ------------------------------------------------------------ execute_code
ErrorRecord(ename, evalue, traceback) ==
    [ename |-> ename, evalue |-> evalue, traceback |-> traceback]

\* mutant of DeadResult: a dead kernel is not reported
DeadResult_Mutant(o) == o

\* lines 129-136: the kernel is dead before submission
DeadResult(o) ==
    [o EXCEPT !.error = ErrorRecord("KernelError", "kernel dead", "hint")]

\* lines 141-148: kernel_client.execute raised
SubmitFailedResult(o) ==
    [o EXCEPT !.error = ErrorRecord("ExecutionError", "submit failed", "exception")]

\* mutant of TimeoutResult: the timeout reported under another error kind
TimeoutResult_Mutant(o) ==
    [o EXCEPT !.error = ErrorRecord("TimeoutError", "limit exceeded", "hint")]

\* lines 156-163: elapsed_time > timeout
TimeoutResult(o) ==
    [o EXCEPT !.error = ErrorRecord("ExtremeLimitError", "limit exceeded", "hint")]

\* lines 174-181: the periodic health check found the kernel dead
CrashResult(o) ==
    [o EXCEPT !.error = ErrorRecord("KernelCrashed", "kernel crashed", "hint")]

\* line 156: elapsed_time > timeout, elapsed in half seconds, timeout in seconds
TimedOut(e, t) == e > ReadsPerSecond * t

\* line 173: int(current_time - start_time) % 10 < 0.5
HealthWindow(e) == (e \div ReadsPerSecond) % HealthPeriod = 0

\* mutant of FoundAlive: the check before submission always passes
FoundAlive_Mutant(s) == TRUE

\* line 129: self.kernel_manager.is_alive() before the code is submitted
FoundAlive(s) == kalive[s]

\* lines 115-151 of execute_code, run by caller p on session s
Begin(p, s, c, t, submit_ok) ==
    /\ sess' = [sess EXCEPT ![p] = s]
    /\ timeout' = [timeout EXCEPT ![p] = t]
    /\ elapsed' = [elapsed EXCEPT ![p] = 0]
    /\ drain' = [drain EXCEPT ![p] = NoDrain]
    /\ foreign' = [foreign EXCEPT ![p] = {}]
    /\ code' = [code EXCEPT ![p] = c]
    /\ prev' = [prev EXCEPT ![p] = exit[p]]
    /\ IF ~FoundAlive(s)
       THEN /\ outputs' = [outputs EXCEPT ![p] = DeadResult(EmptyOutputs)]
            /\ exit' = [exit EXCEPT ![p] = "dead"]
            /\ pc' = [pc EXCEPT ![p] = "ret"]
            /\ msgid' = [msgid EXCEPT ![p] = NoId]
            /\ UNCHANGED <<kreq, nextId>>
       ELSE IF ~submit_ok
       THEN /\ outputs' = [outputs EXCEPT ![p] = SubmitFailedResult(EmptyOutputs)]
            /\ exit' = [exit EXCEPT ![p] = "submitfail"]
            /\ pc' = [pc EXCEPT ![p] = "ret"]
            /\ msgid' = [msgid EXCEPT ![p] = NoId]
            /\ UNCHANGED <<kreq, nextId>>
       ELSE /\ outputs' = [outputs EXCEPT ![p] = EmptyOutputs]
            /\ exit' = [exit EXCEPT ![p] = "none"]
            /\ pc' = [pc EXCEPT ![p] = "top"]
            /\ msgid' = [msgid EXCEPT ![p] = nextId]
            /\ kreq' = [kreq EXCEPT ![s] = Append(@, [id |-> nextId, code |-> c])]
            /\ nextId' = nextId + 1

\* lines 153-181: the head of the while loop
LoopTop(p) ==
    /\ pc[p] = "top"
    /\ IF TimedOut(elapsed[p], timeout[p])
       THEN /\ outputs' = [outputs EXCEPT ![p] = TimeoutResult(@)]
            /\ exit' = [exit EXCEPT ![p] = "timeout"]
            /\ pc' = [pc EXCEPT ![p] = "ret"]
       ELSE IF HealthWindow(elapsed[p]) /\ ~kalive[sess[p]]
       THEN /\ outputs' = [outputs EXCEPT ![p] = CrashResult(@)]
            /\ exit' = [exit EXCEPT ![p] = "crash"]
            /\ pc' = [pc EXCEPT ![p] = "ret"]
       ELSE /\ pc' = [pc EXCEPT ![p] = "read"]
            /\ UNCHANGED <<outputs, exit>>
    /\ UNCHANGED <<agent, mvars, files, kvars, iopub, ghosts, nextId, budget, sess, msgid, timeout,
                   elapsed, drain, prev, code, foreign>>

DataItem(m) == [type |-> m.mt, data |-> m.v]

\* what can be wrong with a message: it is not a dict, has no header or no
\* msg_type, has no content, fails the signature check inside get_iopub_msg,
\* or its content lacks the payload field of its type (text, data, traceback,
\* execution_state)
Forms == {"nodict", "noheader", "nocontent", "badsig", "nofield"}

\* lines 190-200 and 326-338: the message is skipped before it is routed
Skipped(m) == m.form \in Forms \ {"nofield"}

\* lines 212-243 on content without the payload field: the KeyError is raised
\* where the field is read, for execute_result after execution_count was stored
\* (line 222, then content['data'] at line 225)
Partial(o, m) ==
    IF m.mt = "execute_result" THEN [o EXCEPT !.execution_count = m.n] ELSE o

\* lines 189-243: one message routed by the main loop
Route(o, m) ==
    IF Skipped(m) THEN o
    ELSE IF m.form = "nofield" THEN Partial(o, m)
    ELSE
    CASE m.mt = "stream" /\ m.sub = "stdout" -> [o EXCEPT !.stdout = Append(@, m.v)]
      [] m.mt = "stream" /\ m.sub = "stderr" -> [o EXCEPT !.stderr = Append(@, m.v)]
      [] m.mt = "execute_result" ->
            [o EXCEPT !.execution_count = m.n, !.data = Append(@, DataItem(m))]
      [] m.mt = "display_data" -> [o EXCEPT !.data = Append(@, DataItem(m))]
      [] m.mt = "error" -> [o EXCEPT !.error = ErrorRecord(m.v, "evalue", "traceback")]
      [] OTHER -> o

\* line 246; a status without execution_state raises KeyError there
IsIdle(m) == m.form = "ok" /\ m.mt = "status" /\ m.sub = "idle"

\* what a message of another submission contributes to this call
Taken(o, m, id) ==
    IF m.parent = id THEN {}
    ELSE (IF Route(o, m) # o THEN {"output"} ELSE {}) \cup
         (IF IsIdle(m) THEN {"idle"} ELSE {})

\* lines 183-246: the live reader thread returns a message within the wait
ReadMsg(p) ==
    /\ pc[p] = "read"
    /\ chan[sess[p]]
    /\ iopub[sess[p]] # <<>>
    /\ LET m == Head(iopub[sess[p]])
       IN /\ iopub' = [iopub EXCEPT ![sess[p]] = Tail(@)]
          /\ foreign' = [foreign EXCEPT ![p] = @ \cup Taken(outputs[p], m, msgid[p])]
          /\ outputs' = [outputs EXCEPT ![p] = Route(@, m)]
          /\ pc' = [pc EXCEPT ![p] = IF IsIdle(m) THEN "drain" ELSE "top"]
          \* elapsed_time is not read again once the loop is left
          /\ elapsed' = [elapsed EXCEPT ![p] = IF IsIdle(m) THEN 0 ELSE @]
    /\ UNCHANGED <<agent, mvars, files, kvars, ghosts, nextId, budget, sess, msgid, timeout, drain,
                   exit, prev, code>>

Min(a, b) == IF a < b THEN a ELSE b

\* does the head of the loop return at elapsed time e
Wakes(e, t, alive) == TimedOut(e, t) \/ (HealthWindow(e) /\ ~alive)

\* the first pass of the loop after e that does more than wait again
NextWake(e, t, alive) ==
    CHOOSE x \in (e + 1)..(ReadsPerSecond * t + 1) :
        /\ Wakes(x, t, alive)
        /\ \A y \in (e + 1)..(x - 1) : ~Wakes(y, t, alive)

\* lines 184-187, 326-328: no message within 0.5 s; the reader thread stays
\* behind. Once the kernel is silent the waits that time out in a row, up to
\* the next pass that returns, are one step
ReadTimeout(p) ==
    /\ pc[p] = "read"
    /\ chan[sess[p]]
    /\ iopub[sess[p]] = <<>>
    /\ elapsed' = [elapsed EXCEPT ![p] =
                      IF @ < MaxLatency THEN @ + 1
                      ELSE NextWake(@, timeout[p], kalive[sess[p]])]
    /\ ghosts' = [ghosts EXCEPT ![sess[p]] = Min(@ + elapsed'[p] - elapsed[p], MaxGhosts)]
    /\ pc' = [pc EXCEPT ![p] = "top"]
    /\ UNCHANGED <<agent, mvars, files, kvars, iopub, nextId, budget, sess, msgid, timeout, outputs,
                   drain, exit, prev, code, foreign>>

\* lines 184-187, 329-338: the channels were stopped (shutdown, line 356) and
\* get_iopub_msg raises; `except Exception: continue` goes back to the head of
\* the loop. The passes that raise in a row while the clock stands within one
\* half second are one step
ReadRaises(p) ==
    /\ pc[p] = "read"
    /\ ~chan[sess[p]]
    /\ elapsed' = [elapsed EXCEPT ![p] =
                      IF @ < MaxLatency THEN @ + 1
                      ELSE NextWake(@, timeout[p], kalive[sess[p]])]
    /\ pc' = [pc EXCEPT ![p] = "top"]
    /\ UNCHANGED <<agent, mvars, files, kvars, iopub, ghosts, nextId, budget, sess, msgid, timeout,
                   outputs, drain, exit, prev, code, foreign>>

\* lines 276-296: does the drain collect this message
DrainCollects(m) ==
    /\ m.form = "ok"
    /\ \/ m.mt = "stream" /\ m.sub = "stdout"
       \/ m.mt = "display_data"
       \/ m.mt = "execute_result"

\* lines 276-296: one message routed by the drain
DrainRoute(o, m) ==
    IF m.form # "ok" THEN o
    ELSE
    CASE m.mt = "stream" /\ m.sub = "stdout" -> [o EXCEPT !.stdout = Append(@, m.v)]
      [] m.mt = "display_data" -> [o EXCEPT !.data = Append(@, DataItem(m))]
      [] m.mt = "execute_result" -> [o EXCEPT !.data = Append(@, DataItem(m))]
      [] OTHER -> o

\* lines 261-301: while msg_ready(): every ready message, in order
RECURSIVE DrainAll(_, _)
DrainAll(o, q) ==
    IF q = <<>> THEN o ELSE DrainAll(DrainRoute(o, Head(q)), Tail(q))

Collected(q) == Len(SelectSeq(q, DrainCollects))

\* mutant of DrainExit: the drain ends only when its rounds are used up
DrainExit_Mutant(d) == d.wait_round >= DrainRounds

\* lines 303-318: has the drain loop ended after this round
DrainExit(d) ==
    \/ d.wait_round >= DrainRounds
    \/ d.empty_rounds >= EmptyAfterCollected /\ d.total_collected > 0
    \/ d.empty_rounds >= EmptyRoundsExit

\* lines 254-324: one round of the drain after the idle status
DrainRound(p) ==
    /\ pc[p] = "drain"
    /\ chan[sess[p]]
    /\ LET q == iopub[sess[p]]
           c == Collected(q)
           d == [wait_round |-> drain[p].wait_round + 1,
                 empty_rounds |-> IF c = 0 THEN drain[p].empty_rounds + 1 ELSE 0,
                 total_collected |-> drain[p].total_collected + c]
       IN /\ iopub' = [iopub EXCEPT ![sess[p]] = <<>>]
          /\ foreign' = [foreign EXCEPT ![p] = @ \cup
                 {"output" : i \in {j \in 1..Len(q) : DrainCollects(q[j]) /\ q[j].parent # msgid[p]}}]
          /\ outputs' = [outputs EXCEPT ![p] = DrainAll(@, q)]
          /\ drain' = [drain EXCEPT ![p] = d]
          /\ pc' = [pc EXCEPT ![p] = IF DrainExit(d) THEN "ret" ELSE "drain"]
          /\ exit' = [exit EXCEPT ![p] = IF DrainExit(d) THEN "idle" ELSE @]
    /\ UNCHANGED <<agent, mvars, files, kvars, ghosts, nextId, budget, sess, msgid, timeout, elapsed,
                   prev, code>>

\* mutant of DrainRaises: the exception of msg_ready leaves execute_code
DrainRaises_Mutant(p, e) ==
    /\ pc[p] = "drain"
    /\ ~chan[sess[p]]
    /\ e = 0
    /\ pc' = [pc EXCEPT ![p] = "raised"]
    /\ UNCHANGED <<agent, mvars, files, kvars, iopub, ghosts, nextId, budget, sess, msgid, timeout,
                   elapsed, outputs, drain, exit, prev, code, foreign>>

\* line 262 with 329-338: the channels were stopped during the sleep of a drain
\* round and iopub_channel.msg_ready(), which is outside the inner try, raises;
\* the handler of the main loop continues at the head of the while loop, with
\* e half seconds on the clock since start_time
DrainRaises(p, e) ==
    /\ pc[p] = "drain"
    /\ ~chan[sess[p]]
    /\ elapsed' = [elapsed EXCEPT ![p] = e]
    /\ pc' = [pc EXCEPT ![p] = "top"]
    /\ UNCHANGED <<agent, mvars, files, kvars, iopub, ghosts, nextId, budget, sess, msgid, timeout,
                   outputs, drain, exit, prev, code, foreign>>

\* lines 262-296: one pass of `while msg_ready()` over a message that no
\* branch of the drain collects; it is taken from the channel and dropped
DrainRead(p) ==
    /\ pc[p] = "drain"
    /\ chan[sess[p]]
    /\ iopub[sess[p]] # <<>>
    /\ ~DrainCollects(Head(iopub[sess[p]]))
    /\ iopub' = [iopub EXCEPT ![sess[p]] = Tail(@)]
    /\ UNCHANGED <<agent, mvars, files, kvars, ghosts, nextId, budget, pvars>>

\* lines 262 and 298-318: msg_ready() is false, the while loop is left and the
\* round is counted
DrainPass(p) ==
    /\ pc[p] = "drain"
    /\ iopub[sess[p]] = <<>>
    /\ DrainRound(p)

\* a thread the submitted code has started keeps logging to stderr after the
\* cell has ended; the kernel publishes a stream message for each line
Flood(s) ==
    /\ kalive[s] /\ kup[s]
    /\ kreq[s] = <<>>
    /\ \E p \in Procs : sess[p] = s /\ pc[p] = "drain"
    /\ Len(iopub[s]) < MaxBacklog
    /\ iopub' = [iopub EXCEPT ![s] = Append(@,
                     [mt |-> "stream", sub |-> "stderr", v |-> "log", parent |-> NoId,
                      n |-> kcount[s], src |-> kid[s], form |-> "ok"])]
    /\ UNCHANGED <<agent, mvars, files, kvars, ghosts, nextId, budget, pvars>>

\* the fields of a message that is not as the kernel publishes it
Broken(mt, sub, form) ==
    [mt |-> mt, sub |-> sub, v |-> "", parent |-> NoId, n |-> MaxExecs + 1, src |-> NoKernel,
     form |-> form]

\* the messages of the channel that are not well-formed
NoiseItems ==
    {Broken("", "", f) : f \in Forms \ {"nofield"}}
        \cup {Broken("stream", "stdout", "nofield"), Broken("execute_result", "", "nofield"),
              Broken("error", "", "nofield"), Broken("status", "idle", "nofield")}

\* a message that is not well-formed arrives on the channel of a session a
\* caller reads from, one at a time
Noise(s, m) ==
    /\ \E p \in Procs : sess[p] = s /\ pc[p] \in {"top", "read", "drain"}
    /\ Responsive(s)
    /\ \A i \in DOMAIN iopub[s] : iopub[s][i].form = "ok"
    /\ iopub' = [iopub EXCEPT ![s] = Append(@, m)]
    /\ UNCHANGED <<agent, mvars, files, kvars, ghosts, nextId, budget, pvars>>

\* ------------------------------------------------------------- API callers
\* api/session.py execute_code, api/jupyter.py execute_code: get_session, then
\* execute_code on the session found
APIExecute(p, s, prog, t, submit_ok) ==
    /\ pc[p] = "idle"
    /\ op[p] = "execute"
    /\ s \in sessions
    /\ budget > 0
    /\ budget' = budget - 1
    /\ Begin(p, s, UserCode(prog), t, submit_ok)
    /\ UNCHANGED <<agent, mvars, files, kup, kalive, kpos, kcount, iopub, ghosts>>

\* mutant of APIReturn: a session whose kernel crashed is dropped from the
\* registry when the result is returned
APIReturn_Mutant(p) ==
    /\ pc[p] = "ret"
    /\ op[p] = "execute"
    /\ pc' = [pc EXCEPT ![p] = "idle"]
    /\ outputs' = [outputs EXCEPT ![p] = EmptyOutputs]
    /\ drain' = [drain EXCEPT ![p] = NoDrain]
    /\ elapsed' = [elapsed EXCEPT ![p] = 0]
    /\ sessions' = IF exit[p] = "crash" THEN sessions \ {sess[p]} ELSE sessions
    /\ order' = IF exit[p] = "crash" THEN SelectSeq(order, LAMBDA s : s # sess[p]) ELSE order
    /\ UNCHANGED <<agent, used, chan, nextFile, received, op, tables, tix, stime, fail, made, stages,
                   now, created, reply, kid, nextKid, slog, files, kvars, iopub, ghosts,
                   nextId, budget, sess, msgid, timeout, exit, prev, code, foreign>>

\* line 347: return outputs; the caller has the result
APIReturn(p) ==
    /\ pc[p] = "ret"
    /\ op[p] = "execute"
    /\ pc' = [pc EXCEPT ![p] = "idle"]
    /\ outputs' = [outputs EXCEPT ![p] = EmptyOutputs]
    /\ drain' = [drain EXCEPT ![p] = NoDrain]
    /\ elapsed' = [elapsed EXCEPT ![p] = 0]
    /\ UNCHANGED <<agent, mvars, files, kvars, iopub, ghosts, nextId, budget, sess, msgid, timeout,
                   exit, prev, code, foreign>>

\* ------------------------------------------------- JupyterSession.start
\* mutant of StartupExpired: _wait_for_ready without the wait_for around it
StartupExpired_Mutant(t) == FALSE

\* the wait_for around _wait_for_ready cancels it at the first await on or
\* after the deadline, and the only await of the loop is the sleep
StartupExpired(t) == t + ProbeSleep >= TenthsPerSecond * StartupTimeout

\* line 386, 535: str(uuid.uuid4()) is an id not in use; which one is of no
\* consequence
FreshIds ==
    IF SessionIds \ used = {} THEN {} ELSE {CHOOSE s \in SessionIds \ used : TRUE}

\* mutant of NewKernel: every session is given the same kernel process
NewKernel_Mutant(n) == 1

\* lines 405, 547 and 41: a KernelManager of its own for the session, and
\* start_kernel launches a new process for it
NewKernel(n) == n

\* lines 386-413 and 535-552 with lines 28-64 of start: a fresh session id, the
\* kernel process launched, the client channels started
CreateBegin(p, kind, tbls, launch_ok) ==
    /\ pc[p] = "idle"
    /\ op[p] = "none"
    /\ \E s \in FreshIds :
          /\ used' = used \cup {s}
          /\ sess' = [sess EXCEPT ![p] = s]
          /\ created' = [created EXCEPT ![s] = now]
          /\ kid' = [kid EXCEPT ![s] = IF launch_ok THEN NewKernel(nextKid) ELSE @]
          /\ nextKid' = IF launch_ok THEN nextKid + 1 ELSE nextKid
          /\ IF launch_ok
             THEN /\ kalive' = [kalive EXCEPT ![s] = TRUE]
                  /\ chan' = [chan EXCEPT ![s] = TRUE]
                  /\ pc' = [pc EXCEPT ![p] = "start"]
                  /\ UNCHANGED fail
             ELSE /\ pc' = [pc EXCEPT ![p] = "failed"]
                  /\ fail' = [fail EXCEPT ![p] = "launch"]
                  /\ UNCHANGED <<kalive, chan>>
    /\ op' = [op EXCEPT ![p] = kind]
    /\ tables' = [tables EXCEPT ![p] = tbls]
    /\ UNCHANGED <<agent, slog, order, now, reply, sessions, files, nextFile, received, tix, stime, made,
                   stages, kup, kreq, kpos, kcount, iopub, ghosts, nextId, budget, msgid,
                   timeout,
                   elapsed, outputs, drain, exit, prev, code, foreign>>

\* lines 79-85 of _wait_for_ready: send the probe, sleep 0.1 s; the startup
\* timeout of lines 67-75 lands on the sleep and start raises
ProbeSend(p) ==
    /\ pc[p] = "start"
    \* nothing reads the message id of a probe
    /\ kreq' = [kreq EXCEPT ![sess[p]] = Append(@, [id |-> NoId, code |-> ProbeCode])]
    /\ IF StartupExpired(stime[p])
       THEN /\ pc' = [pc EXCEPT ![p] = "failed"]
            /\ fail' = [fail EXCEPT ![p] = "startup"]
            /\ UNCHANGED stime
       ELSE /\ pc' = [pc EXCEPT ![p] = "probe"]
            /\ stime' = [stime EXCEPT ![p] = @ + ProbeSleep]
            /\ UNCHANGED fail
    /\ UNCHANGED <<agent, rvars, slog, sessions, used, chan, files, nextFile, received, op, tables, tix,
                   made, stages, kup, kalive, kpos, kcount, iopub, ghosts, nextId, budget,
                   sess, msgid, timeout, elapsed, outputs, drain, exit, prev, code,
                   foreign>>

\* lines 86-96 of _wait_for_ready: get_iopub_msg(timeout=1); a status or an
\* execute_result message ends the wait after the ready messages are drained
ProbeRead(p) ==
    /\ pc[p] = "probe"
    /\ LET s == sess[p]
       IN IF iopub[s] = <<>>
          THEN /\ stime' = [stime EXCEPT ![p] = @ + ProbeWait]
               /\ pc' = [pc EXCEPT ![p] = "start"]
               /\ UNCHANGED iopub
          ELSE IF Head(iopub[s]).mt \in {"execute_result", "status"}
          THEN /\ iopub' = [iopub EXCEPT ![s] = <<>>]
               /\ pc' = [pc EXCEPT ![p] = "init"]
               /\ stime' = [stime EXCEPT ![p] = 0]
          ELSE /\ iopub' = [iopub EXCEPT ![s] = Tail(@)]
               /\ pc' = [pc EXCEPT ![p] = "start"]
               /\ UNCHANGED stime
    /\ UNCHANGED <<agent, rvars, slog, sessions, used, chan, files, nextFile, received, op, tables, tix,
                   fail, made, stages, kvars, ghosts, nextId, budget, sess, msgid,
                   timeout, elapsed, outputs, drain, exit, prev, code, foreign>>

\* line 360: kernel_manager.is_alive()
Graceful(alive) == alive

\* mutant of Forced: only a failure of stop_channels reaches the handler
Forced_Mutant(alive, stop_ok, grace_ok) == ~stop_ok

\* lines 353-365: does shutdown reach its except handler; stop_ok and grace_ok
\* say that stop_channels and shutdown_kernel(now=False) do not raise
Forced(alive, stop_ok, grace_ok) == ~stop_ok \/ (Graceful(alive) /\ ~grace_ok)

\* lines 353-365: what one shutdown() does, in order: stop_channels, then
\* shutdown_kernel(now=False) for a kernel that is alive, then
\* shutdown_kernel(now=True) in the except handler
ShutdownEvents(alive, stop_ok, grace_ok) ==
    <<"stop">> \o (IF stop_ok /\ Graceful(alive) THEN <<"graceful">> ELSE <<>>)
              \o (IF Forced(alive, stop_ok, grace_ok) THEN <<"forced">> ELSE <<>>)

\* lines 363-365: the handler of shutdown calls shutdown_kernel(now=True)
\* outside any try; when that call raises too, shutdown raises
ShutdownRaises(alive, stop_ok, grace_ok, kill_ok) ==
    Forced(alive, stop_ok, grace_ok) /\ ~kill_ok

\* lines 349-365 of shutdown: the channels stopped unless stop_channels raised,
\* the kernel ended by shutdown_kernel, gracefully or with now=True, unless
\* shutdown raises
Shutdown(s, stop_ok, grace_ok, kill_ok) ==
    /\ chan' = [chan EXCEPT ![s] = IF stop_ok THEN FALSE ELSE @]
    /\ kalive' = [kalive EXCEPT ![s] =
                     IF ShutdownRaises(kalive[s], stop_ok, grace_ok, kill_ok) THEN @ ELSE FALSE]
    /\ slog' = [slog EXCEPT ![s] = ShutdownEvents(kalive[s], stop_ok, grace_ok)]

\* ------------------------------------- create_session, create_multi_session
CreateKinds == {"create", "multi"}

BytesPerMB == 1024 * 1024

\* len(data_json) at which data_size_mb is exactly 10
Threshold == ThresholdMB * BytesPerMB

Sizes == {Threshold - 1, Threshold, Threshold + 1}

\* a payload: its length and whether pd.read_json accepts it; the payload
\* that is rejected is a large one
Payloads ==
    [size : Sizes, valid : {TRUE}] \cup {[size |-> Threshold + 1, valid |-> FALSE]}

\* tables_data of a call; create_session has the one payload data_json
TableLists(kind) ==
    IF kind = "create" THEN {<<pl>> : pl \in Payloads}
    ELSE UNION {[1..n -> Payloads] : n \in 0..MaxTables}

\* mutant of UsesTempFile: the threshold itself takes the file path
UsesTempFile_Mutant(size) == size >= ThresholdMB * BytesPerMB

\* lines 452-455 and 597-600: data_size_mb = len(data_json) / (1024 * 1024);
\* if data_size_mb > 10 (the division by a power of two is exact)
UsesTempFile(size) == size > ThresholdMB * BytesPerMB

\* mutant of InitFailed: the error of the initialization result is ignored
InitFailed_Mutant(o) == FALSE

\* line 497: if result.get('error')
InitFailed(o) == o.error # NoError

\* line 578: if result.get('error')
EnvFailed(o) == o.error # NoError

\* mutant of LoadFailed: the error of a load result is ignored
LoadFailed_Mutant(o) == FALSE

\* line 639: if load_result.get('error')
LoadFailed(o) == o.error # NoError

Failed(p) ==
    IF op[p] = "create" THEN InitFailed(outputs[p])
    ELSE IF tix[p] = 0 THEN EnvFailed(outputs[p])
    ELSE LoadFailed(outputs[p])

\* the call is over: what execute_code kept for it is gone
Forget(p) ==
    /\ msgid' = [msgid EXCEPT ![p] = NoId]
    /\ timeout' = [timeout EXCEPT ![p] = 0]
    /\ elapsed' = [elapsed EXCEPT ![p] = 0]
    /\ outputs' = [outputs EXCEPT ![p] = EmptyOutputs]
    /\ drain' = [drain EXCEPT ![p] = NoDrain]
    /\ exit' = [exit EXCEPT ![p] = "none"]
    /\ prev' = [prev EXCEPT ![p] = "none"]
    /\ code' = [code EXCEPT ![p] = ProbeCode]
    /\ foreign' = [foreign EXCEPT ![p] = {}]

\* does execute_code hand the code to the kernel (lines 129-148)
Accepted(s, submit_ok) == kalive[s] /\ submit_ok

\* lines 451-488 and 590-638: table i of the call goes to the kernel, through a
\* temporary file if it is large, and execute_code starts with the default timeout
Stage(p, i, submit_ok) ==
    LET s == sess[p]
        pl == tables[p][i]
        big == UsesTempFile(pl.size)
        file == IF big THEN nextFile ELSE NoFile
        c == IF op[p] = "create" THEN InitCode(file, pl.valid) ELSE LoadCode(file, pl.valid)
    IN /\ files' = IF big THEN files \cup {file} ELSE files
       /\ nextFile' = IF big THEN nextFile + 1 ELSE nextFile
       /\ made' = [made EXCEPT ![p] = IF big THEN @ \cup {i} ELSE @]
       /\ tix' = [tix EXCEPT ![p] = i]
       /\ received' = [received EXCEPT ![s] =
                          IF Accepted(s, submit_ok) THEN Append(@, i) ELSE @]
       /\ Begin(p, s, c, DefaultTimeout, submit_ok)

\* lines 554-576: create_multi_session initializes the environment only
EnvStage(p, submit_ok) ==
    LET s == sess[p]
    IN /\ tix' = [tix EXCEPT ![p] = 0]
       /\ received' = [received EXCEPT ![s] =
                          IF Accepted(s, submit_ok) THEN Append(@, 0) ELSE @]
       /\ Begin(p, s, EnvCode, DefaultTimeout, submit_ok)
       /\ UNCHANGED <<files, nextFile, made>>

\* start has returned: the initialization code is built and executed
CreateInit(p, submit_ok) ==
    /\ pc[p] = "init"
    /\ IF op[p] = "create" THEN Stage(p, 1, submit_ok) ELSE EnvStage(p, submit_ok)
    /\ UNCHANGED <<agent, rvars, slog, sessions, used, chan, op, tables, stime, fail, stages, kup,
                   kalive, kpos, kcount, iopub, ghosts, budget>>

\* lines 497-503, 578-582, 639-643: the result carries an error; the kernel is
\* shut down and the call raises
CreateFail(p, stop_ok) ==
    /\ pc[p] = "ret"
    /\ op[p] \in CreateKinds
    /\ Failed(p)
    /\ stages' = [stages EXCEPT ![p] = Append(@, outputs[p].error.ename)]
    /\ \E grace_ok \in BOOLEAN : Shutdown(sess[p], stop_ok, grace_ok, TRUE)
    /\ pc' = [pc EXCEPT ![p] = "failed"]
    /\ fail' = [fail EXCEPT ![p] = IF op[p] = "multi" /\ tix[p] > 0 THEN "load" ELSE "init"]
    /\ Forget(p)
    /\ UNCHANGED <<agent, rvars, sessions, used, files, nextFile, received, op, tables, tix, stime,
                   made, kup, kreq, kpos, kcount, iopub, ghosts, nextId, budget, sess>>

\* lines 590-638: the loop of create_multi_session moves on to the next table
LoadNext(p, submit_ok) ==
    /\ pc[p] = "ret"
    /\ op[p] = "multi"
    /\ ~Failed(p)
    /\ tix[p] < Len(tables[p])
    /\ stages' = [stages EXCEPT ![p] = Append(@, outputs[p].error.ename)]
    /\ Stage(p, tix[p] + 1, submit_ok)
    /\ UNCHANGED <<agent, rvars, slog, sessions, used, chan, op, tables, stime, fail, kup, kalive,
                   kpos, kcount, iopub, ghosts, budget>>

\* lines 510-514 and 648-652: self.sessions[session_id] = session; return
Register(p) ==
    /\ pc[p] = "ret"
    /\ op[p] \in CreateKinds
    /\ ~Failed(p)
    /\ op[p] = "multi" => tix[p] = Len(tables[p])
    /\ stages' = [stages EXCEPT ![p] = Append(@, outputs[p].error.ename)]
    /\ sessions' = sessions \cup {sess[p]}
    /\ order' = Append(order, sess[p])
    /\ pc' = [pc EXCEPT ![p] = "created"]
    /\ Forget(p)
    /\ UNCHANGED <<agent, slog, now, created, reply, kid, nextKid, used, chan, files, nextFile, received, op, tables, tix, stime, fail,
                   made, kvars, iopub, ghosts, nextId, budget, sess>>

\* ------------------------------------------- the registry of JupyterManager
\* the ids a client may send: those create returns and one it never returned
RequestIds == SessionIds \cup {"sx"}

\* mutant of Found: a session is found under every id ever handed out
Found_Mutant(id) == id \in SessionIds

\* lines 654-656, 660-661: self.sessions.get(session_id) is a session
Found(id) == id \in sessions

\* the state a registry call does not write
RegistryFrame ==
    UNCHANGED <<agent, now, created, kid, nextKid, used, files, nextFile, received, op, tables,
                tix, stime, fail, made, stages, kup, kreq, kpos, kcount, iopub, ghosts,
                nextId, budget, pvars>>

\* lines 658-664 of close_session: nothing for an id that is not registered;
\* otherwise shutdown, and the entry deleted once shutdown has returned
CloseSession(p, id, stop_ok, grace_ok, kill_ok) ==
    /\ pc[p] = "idle"
    /\ op[p] = "execute"
    /\ IF ~Found(id)
       THEN /\ reply' = [reply EXCEPT ![p] = [call |-> "close", id |-> id, out |-> "absent"]]
            /\ UNCHANGED <<sessions, order, chan, kalive, slog>>
       ELSE /\ Shutdown(id, stop_ok, grace_ok, kill_ok)
            /\ IF ShutdownRaises(kalive[id], stop_ok, grace_ok, kill_ok)
               THEN /\ reply' = [reply EXCEPT ![p] =
                                    [call |-> "close", id |-> id, out |-> "raised"]]
                    /\ UNCHANGED <<sessions, order>>
               ELSE /\ reply' = [reply EXCEPT ![p] =
                                    [call |-> "close", id |-> id, out |-> "done"]]
                    /\ sessions' = sessions \ {id}
                    /\ order' = SelectSeq(order, LAMBDA s : s # id)
    /\ RegistryFrame

\* line 672: current_time - session.created_at > max_age
Expired(t, c, max_age) == t - c > max_age

\* lines 668-673: to_remove, in the order of the dict
ToRemove(max_age) == SelectSeq(order, LAMBDA s : Expired(now, created[s], max_age))

Range(q) == {q[i] : i \in DOMAIN q}

\* what raises in the try block of a session's shutdown: nothing,
\* stop_channels, or shutdown_kernel(now=False)
Hows == {"ok", "stop", "graceful"}

\* lines 666-679 of cleanup_old_sessions: close_session on each session of
\* to_remove in turn. The first k are closed; k short of the list, the close of
\* the next one raised and the call ends there. `how` says for each session
\* what raises in the try block of its shutdown
Cleanup(p, max_age, k, how) ==
    /\ pc[p] = "idle"
    /\ op[p] = "execute"
    /\ LET to_remove == ToRemove(max_age)
           gone == Range(SubSeq(to_remove, 1, k))
           stuck == IF k < Len(to_remove) THEN {to_remove[k + 1]} ELSE {}
           stop_ok(s) == how[s] # "stop"
           grace_ok(s) == how[s] # "graceful"
       IN /\ k \in 0..Len(to_remove)
          /\ \A s \in stuck : Forced(kalive[s], stop_ok(s), grace_ok(s))
          /\ chan' = [s \in SessionIds |->
                         IF s \in gone \cup stuck /\ stop_ok(s) THEN FALSE ELSE chan[s]]
          /\ kalive' = [s \in SessionIds |-> IF s \in gone THEN FALSE ELSE kalive[s]]
          /\ slog' = [s \in SessionIds |->
                         IF s \in gone \cup stuck
                         THEN ShutdownEvents(kalive[s], stop_ok(s), grace_ok(s))
                         ELSE slog[s]]
          /\ sessions' = sessions \ gone
          /\ order' = SelectSeq(order, LAMBDA s : s \notin gone)
          /\ reply' = [reply EXCEPT ![p] =
                          [call |-> "cleanup", id |-> NoSession,
                           out |-> IF stuck = {} THEN "done" ELSE "raised"]]
    /\ RegistryFrame

Endpoints == {"session", "jupyter"}

\* api/session.py lines 293-299 with 309-310: the HTTPException is raised
\* again, status 404. api/jupyter.py lines 34-36 with 121-123: the
\* HTTPException is raised inside the try whose handler is `except Exception`,
\* and leaves as status 500
NotFoundStatus(endpoint) == IF endpoint = "session" THEN "404" ELSE "500"

\* execute_code of either endpoint on an id get_session does not find
APIReject(p, id, endpoint) ==
    /\ pc[p] = "idle"
    /\ op[p] = "execute"
    /\ ~Found(id)
    /\ reply' = [reply EXCEPT ![p] =
                    [call |-> "execute", id |-> id, out |-> NotFoundStatus(endpoint)]]
    /\ UNCHANGED <<agent, sessions, order, chan, kalive, slog>>
    /\ RegistryFrame

\* the clock of the event loop moves on
Tick ==
    /\ now < MaxClock
    /\ now' = now + 1
    /\ UNCHANGED <<agent, slog, order, created, reply, kid, nextKid, sessions, used, chan, nextFile,
                   received, op, tables, tix, stime, fail, made, stages, files, kvars,
                   iopub, ghosts, nextId, budget, pvars>>

\* ------------------------------------------------- AnalysisAgent.run
\* agent.py lines 80-86: the agent after __init__; run() has not started
NewAgent == [pc |-> "new", status |-> "running", current_retry |-> 0, steps |-> <<>>]

AgentStep(title, status) == [title |-> title, status |-> status]

\* self.steps.append(step) with the step running, then the await of its
\* implementation
Begun(a, title, at) ==
    [a EXCEPT !.steps = Append(@, AgentStep(title, "running")), !.pc = at]

\* the implementation has set the status of the step it was given
Settled(a, ok) ==
    [a EXCEPT !.steps[Len(a.steps)].status = IF ok THEN "success" ELSE "failed"]

\* return self._build_response() with self.status set
Finished(a, status) == [a EXCEPT !.status = status, !.pc = "done"]

\* line 167: while self.current_retry < self.max_retries, then lines 172-179;
\* when the condition is false run() falls to its last line and returns
Enter(a) ==
    IF a.current_retry < max_retries THEN Begun(a, "execute", "exec")
    ELSE [a EXCEPT !.pc = "done"]

\* mutant of Exhausted: the retries are never used up
Exhausted_Mutant(r) == FALSE

\* line 208: self.current_retry >= self.max_retries
Exhausted(r) == r >= max_retries

\* lines 206-219: the execution, or the extraction of its result, has failed
Retry(a) ==
    LET b == [a EXCEPT !.current_retry = @ + 1]
    IN IF Exhausted(b.current_retry) THEN Finished(b, "failed")
       ELSE Begun(b, "fix", "fix")

AgentFrame == UNCHANGED <<mvars, files, kvars, iopub, ghosts, nextId, budget, pvars>>

\* lines 152-159: step 1 is appended and _generate_code_impl awaited
AgentRun ==
    /\ agent.pc = "new"
    /\ agent' = Begun(agent, "generate", "gen")
    /\ AgentFrame

\* lines 161-167: a failed generation ends the run
AgentGenerated(ok) ==
    /\ agent.pc = "gen"
    /\ agent' = IF ok THEN Enter(Settled(agent, ok)) ELSE Finished(Settled(agent, ok), "failed")
    /\ AgentFrame

\* the code the language model hands to the agent, generated or fixed
AgentPrograms == {"pass", "loop"}

\* the caller on whose behalf the agent's execute_code calls run
AgentProc == "c1"

\* lines 347-353 of _execute_code_impl: get_session, then
\* session.execute_code(code, timeout=120), the limit scaled to CallerTimeouts
AgentSubmit(s, prog, t) ==
    /\ agent.pc = "exec"
    /\ pc[AgentProc] = "idle"
    /\ s \in sessions
    /\ Begin(AgentProc, s, UserCode(prog), t, TRUE)
    /\ UNCHANGED <<agent, mvars, files, kup, kalive, kpos, kcount, iopub, ghosts, budget>>

\* lines 357-365 and 383: the step has failed when the result carries an error
\* and neither stdout nor data
ExecOK(o) == o.error = NoError \/ o.stdout # <<>> \/ o.data # <<>>

\* lines 179-190: _execute_code_impl has returned with step2.status set
AgentExecuted ==
    /\ agent.pc = "exec"
    /\ pc[AgentProc] = "ret"
    /\ LET ok == ExecOK(outputs[AgentProc])
       IN agent' = IF ok THEN Begun(Settled(agent, ok), "extract", "extract")
                    ELSE Retry(Settled(agent, ok))
    /\ pc' = [pc EXCEPT ![AgentProc] = "idle"]
    /\ outputs' = [outputs EXCEPT ![AgentProc] = EmptyOutputs]
    /\ drain' = [drain EXCEPT ![AgentProc] = NoDrain]
    /\ elapsed' = [elapsed EXCEPT ![AgentProc] = 0]
    /\ UNCHANGED <<mvars, files, kvars, iopub, ghosts, nextId, budget, sess, msgid, timeout,
                   exit, prev, code, foreign>>

\* lines 190-199: _extract_result_impl has returned with step3.status set
AgentExtracted(ok) ==
    /\ agent.pc = "extract"
    /\ agent' = IF ok THEN Begun(Settled(agent, ok), "summary", "summary")
                 ELSE Retry(Settled(agent, ok))
    /\ AgentFrame

\* lines 199-203: after the summary the run is completed, whatever its status
AgentSummarized(ok) ==
    /\ agent.pc = "summary"
    /\ agent' = Finished(Settled(agent, ok), "completed")
    /\ AgentFrame

\* lines 219-228: a failed fix ends the run; the fixed code is executed
AgentFixed(ok) ==
    /\ agent.pc = "fix"
    /\ agent' = IF ok THEN Enter(Settled(agent, ok)) ELSE Finished(Settled(agent, ok), "failed")
    /\ AgentFrame

\* lines 230-235: an exception out of an awaited step; _execute_code_impl
\* has a handler of its own (lines 411-414) and raises nothing
AgentRaised ==
    /\ agent.pc \in {"gen", "extract", "summary", "fix"}
    /\ agent' = Finished(agent, "failed")
    /\ AgentFrame

AgentNext ==
    \/ AgentRun
    \/ \E ok \in BOOLEAN : AgentGenerated(ok)
    \/ \E s \in SessionIds, prog \in AgentPrograms, t \in CallerTimeouts :
          AgentSubmit(s, prog, t)
    \/ AgentExecuted
    \/ \E ok \in BOOLEAN : AgentExtracted(ok)
    \/ \E ok \in BOOLEAN : AgentSummarized(ok)
    \/ \E ok \in BOOLEAN : AgentFixed(ok)
    \/ AgentRaised

\* --------------------------------------------------------- specifications
\* a session registered by create_session, its kernel idle, nothing in flight;
\* the callers in `active` may start `n` execute_code calls between them
NoReply == [call |-> "none", id |-> NoSession, out |-> "none"]

\* no time has passed since the sessions were created
FreshClock == now = 0 /\ created = [s \in SessionIds |-> 0]

\* the sessions in `reg` are registered, their kernels idle, nothing in flight;
\* the callers in `active` run the operation `ops` gives them, with `n`
\* execute_code calls
InitOps(reg, active, n, ops) ==
    /\ reply = [p \in Procs |-> NoReply]
    /\ kid = CHOOSE f \in [SessionIds -> 0..Cardinality(reg)] :
                /\ \A s \in SessionIds : s \in reg <=> f[s] # NoKernel
                /\ \A s, t \in reg : f[s] = f[t] => s = t
    /\ nextKid = Cardinality(reg) + 1
    /\ slog = [s \in SessionIds |-> <<>>]
    /\ order = CHOOSE q \in [1..Cardinality(reg) -> reg] :
                  \A i, j \in 1..Cardinality(reg) : i < j => kid[q[i]] < kid[q[j]]
    /\ sessions = reg
    /\ used = reg
    /\ chan = [s \in SessionIds |-> s \in reg]
    /\ files = {}
    /\ nextFile = 1
    /\ received = [s \in SessionIds |-> <<>>]
    /\ op = ops
    /\ tables = [p \in Procs |-> <<>>]
    /\ tix = [p \in Procs |-> 0]
    /\ stime = [p \in Procs |-> 0]
    /\ fail = [p \in Procs |-> "none"]
    /\ made = [p \in Procs |-> {}]
    /\ stages = [p \in Procs |-> <<>>]
    /\ kup = [s \in SessionIds |-> s \in reg]
    /\ kalive = [s \in SessionIds |-> s \in reg]
    /\ kreq = [s \in SessionIds |-> <<>>]
    /\ kpos = [s \in SessionIds |-> 0]
    /\ kcount = [s \in SessionIds |-> 1]
    /\ iopub = [s \in SessionIds |-> <<>>]
    /\ ghosts = [s \in SessionIds |-> 0]
    /\ nextId = 1
    /\ budget = n
    /\ pc = [p \in Procs |-> IF p \in active THEN "idle" ELSE "off"]
    /\ sess = [p \in Procs |-> NoSession]
    /\ msgid = [p \in Procs |-> NoId]
    /\ timeout = [p \in Procs |-> 0]
    /\ elapsed = [p \in Procs |-> 0]
    /\ outputs = [p \in Procs |-> EmptyOutputs]
    /\ drain = [p \in Procs |-> NoDrain]
    /\ exit = [p \in Procs |-> "none"]
    /\ prev = [p \in Procs |-> "none"]
    /\ code = [p \in Procs |-> ProbeCode]
    /\ foreign = [p \in Procs |-> {}]
    /\ agent = NewAgent

\* the same with the one operation `o` for every caller
InitWith(reg, active, n, o) == InitOps(reg, active, n, [p \in Procs |-> o])

\* a session registered by create_session; the callers in `active` may start
\* `n` execute_code calls between them
InitSession(active, n) == InitWith({"s1"}, active, n, "execute") /\ FreshClock

Engine ==
    \/ \E p \in Procs : LoopTop(p)
    \/ \E p \in Procs : ReadMsg(p)
    \/ \E p \in Procs : ReadTimeout(p)
    \/ \E p \in Procs : DrainRound(p)
    \/ \E p \in Procs : APIReturn(p)
    \/ \E s \in SessionIds : KernelStep(s)
    \/ \E s \in SessionIds : GhostRead(s)

\* one caller, MaxExecs calls one after the other, any program, the kernel may die
InitExec == InitSession({"c1"}, MaxExecs)

NextExec ==
    \/ \E p \in Procs, s \in SessionIds, prog \in Programs, t \in CallerTimeouts,
          ok \in BOOLEAN : APIExecute(p, s, prog, t, ok)
    \/ Engine
    \/ \E s \in SessionIds : KernelDie(s)

SpecExec == InitExec /\ [][NextExec]_vars

\* the event loop resumes a coroutine whose sleep has ended: a drain round
\* that is due is run
SpecExecFair == SpecExec /\ \A p \in Procs : WF_vars(DrainRound(p))

\* one caller, one call more than in SpecExec, the kernel stays alive
InitSeq == InitSession({"c1"}, MaxExecs + 1)

NextSeq ==
    \/ \E p \in Procs, s \in SessionIds, prog \in Programs, t \in CallerTimeouts :
          APIExecute(p, s, prog, t, TRUE)
    \/ Engine

SpecSeq == InitSeq /\ [][NextSeq]_vars

\* two callers on the same session, each submitting code without output
InitConc == InitSession(Procs, MaxExecs + 1)

NextConc ==
    \/ \E p \in Procs, s \in SessionIds, t \in CallerTimeouts :
          APIExecute(p, s, "pass", t, TRUE)
    \/ Engine

SpecConc == InitConc /\ [][NextConc]_vars

\* one caller, one call after the other as in SpecSeq, the kernel may die
NextCrash ==
    \/ \E p \in Procs, s \in SessionIds, prog \in Programs, t \in CallerTimeouts :
          APIExecute(p, s, prog, t, TRUE)
    \/ Engine
    \/ \E s \in SessionIds : KernelDie(s)

SpecCrash == InitSeq /\ [][NextCrash]_vars

\* request.timeout of api/session.py is any integer the client sends; here it
\* is larger than the default limit of execute_code
LargeTimeouts == {DefaultTimeout + 1}

\* one caller, one call with a large timeout, any program, the kernel may die
NextLarge ==
    \/ \E p \in Procs, s \in SessionIds, prog \in Programs, t \in LargeTimeouts,
          ok \in BOOLEAN : APIExecute(p, s, prog, t, ok)
    \/ Engine
    \/ \E s \in SessionIds : KernelDie(s)

SpecLarge == InitExec /\ [][NextLarge]_vars

\* the client that executes code and the client that manages sessions, where
\* a specification gives them one task each
Executors == {"c2"}

Managers == Procs \ Executors

\* the task that calls cleanup_old_sessions
Cleaners == Procs \ Managers

\* two sessions registered one second apart; a client closes sessions and
\* asks for ids that are not registered while a task cleans up, one call after
\* the other on the event loop, as the clock moves on and the kernels may die
InitRegistry ==
    /\ InitWith(SessionIds, Procs, MaxExecs, "execute")
    /\ now = 1
    /\ created = [s \in SessionIds |-> kid[s] - 1]

NextRegistry ==
    \/ \E p \in Managers, id \in RequestIds, e \in Endpoints : APIReject(p, id, e)
    \/ \E p \in Managers, id \in RequestIds, stop_ok, grace_ok, kill_ok \in BOOLEAN :
          CloseSession(p, id, stop_ok, grace_ok, kill_ok)
    \/ \E p \in Cleaners, max_age \in MaxAges, k \in 0..Cardinality(SessionIds),
          how \in [SessionIds -> Hows] : Cleanup(p, max_age, k, how)
    \/ \E s \in SessionIds : KernelDie(s)
    \/ Tick

SpecRegistry == InitRegistry /\ [][NextRegistry]_vars

\* the sessions of SpecRegistry with execute_code running on them: one caller
\* executes and runs the cleanup between its calls, the other one closes. A
\* shutdown either raises nothing or raises all the way
LifePrograms == {"raise", "loop"}

NextLife ==
    \/ \E p \in Executors, s \in SessionIds, prog \in LifePrograms, t \in CallerTimeouts :
          APIExecute(p, s, prog, t, TRUE)
    \/ Engine
    \/ \E p \in Executors : ReadRaises(p)
    \/ \E p \in Executors : \E e \in 0..ReadsPerSecond * timeout[p] : DrainRaises(p, e)
    \/ \E p \in Managers, id \in SessionIds, ok \in BOOLEAN : CloseSession(p, id, ok, ok, ok)
    \/ \E p \in Cleaners, max_age \in MaxAges, k \in 0..Cardinality(SessionIds) :
          Cleanup(p, max_age, k, [s \in SessionIds |-> "ok"])
    \/ \E s \in SessionIds : KernelDie(s)

\* the clock stands at MaxClock: both sessions are older than the smaller age
\* of MaxAges, the first one older than the larger one too
InitLife ==
    /\ InitWith(SessionIds, Procs, MaxExecs, "execute")
    /\ now = MaxClock
    /\ created = [s \in SessionIds |-> kid[s] - 1]

SpecLife == InitLife /\ [][NextLife]_vars

\* an execute_code call on a session that the other caller closes or cleans
\* up meanwhile; every shutdown succeeds
NextShut ==
    \/ \E p \in Executors, s \in SessionIds, prog \in LifePrograms, t \in CallerTimeouts :
          APIExecute(p, s, prog, t, TRUE)
    \/ Engine
    \/ \E p \in Executors : ReadRaises(p)
    \/ \E p \in Executors : \E e \in 0..ReadsPerSecond * timeout[p] : DrainRaises(p, e)
    \/ \E p \in Managers, id \in SessionIds : CloseSession(p, id, TRUE, TRUE, TRUE)
    \/ \E p \in Managers, max_age \in MaxAges, k \in 0..Cardinality(SessionIds) :
          Cleanup(p, max_age, k, [s \in SessionIds |-> "ok"])

SpecShut == InitLife /\ [][NextShut]_vars

\* the event loop resumes a coroutine whose await is over: the head of the
\* loop, the handler of a read that raised and the handler of a drain round
\* that raised are run
SpecShutFair ==
    SpecShut /\ \A p \in Executors :
        /\ WF_vars(LoopTop(p))
        /\ WF_vars(ReadRaises(p))
        /\ WF_vars(\E e \in 0..ReadsPerSecond * timeout[p] : DrainRaises(p, e))

\* one caller, one call of a program that leaves a logging thread behind; the
\* passes of the drain's while loop are steps of their own
FloodPrograms == {"pass", "print2", "loop"}

NextFlood ==
    \/ \E p \in Procs, s \in SessionIds, prog \in FloodPrograms, t \in CallerTimeouts :
          APIExecute(p, s, prog, t, TRUE)
    \/ \E p \in Procs : LoopTop(p)
    \/ \E p \in Procs : ReadMsg(p)
    \/ \E p \in Procs : ReadTimeout(p)
    \/ \E p \in Procs : DrainRead(p)
    \/ \E p \in Procs : DrainPass(p)
    \/ \E p \in Procs : APIReturn(p)
    \/ \E s \in SessionIds : KernelStep(s)
    \/ \E s \in SessionIds : GhostRead(s)
    \/ \E s \in SessionIds : Flood(s)

SpecFlood == InitExec /\ [][NextFlood]_vars

\* the event loop resumes a coroutine whose await is over, and code that does
\* not await runs on: every step of the call that stays possible is taken
SpecFloodFair ==
    SpecFlood /\ \A p \in Procs :
        /\ WF_vars(LoopTop(p))
        /\ WF_vars(ReadMsg(p))
        /\ WF_vars(ReadTimeout(p))
        /\ WF_vars(DrainRead(p))
        /\ WF_vars(DrainPass(p))

\* one run of an AnalysisAgent on a registered session, single-chart flow
NextAgent ==
    \/ AgentNext
    \/ LoopTop(AgentProc)
    \/ ReadMsg(AgentProc)
    \/ ReadTimeout(AgentProc)
    \/ DrainRound(AgentProc)
    \/ \E s \in SessionIds : KernelStep(s)
    \/ \E s \in SessionIds : GhostRead(s)

SpecAgent == InitExec /\ [][NextAgent]_vars

\* every awaited step of the run returns or raises, and the event loop
\* resumes execute_code when its await is over
SpecAgentFair ==
    /\ SpecAgent
    /\ WF_vars(AgentNext)
    /\ WF_vars(LoopTop(AgentProc))
    /\ WF_vars(ReadMsg(AgentProc))
    /\ WF_vars(ReadTimeout(AgentProc))
    /\ WF_vars(DrainRound(AgentProc))

\* data_json of a create_session call: a payload below the threshold that
\* pd.read_json accepts
SmallTables == {<<pl>> : pl \in {q \in Payloads : q.size < Threshold /\ q.valid}}

\* one caller, one call, any program, while messages that are not well-formed
\* arrive on the channel
NextNoise ==
    \/ \E p \in Procs, s \in SessionIds, prog \in Programs, t \in CallerTimeouts :
          APIExecute(p, s, prog, t, TRUE)
    \/ Engine
    \/ \E s \in SessionIds, m \in NoiseItems : Noise(s, m)

SpecNoise == InitExec /\ [][NextNoise]_vars

\* one session registered; one client executes code on it while the other
\* creates a second session, whose start and initialisation run on the
\* second kernel
InitIso ==
    /\ InitOps({"s1"}, Procs, MaxExecs,
               [p \in Procs |-> IF p \in Executors THEN "execute" ELSE "none"])
    /\ FreshClock

NextIso ==
    \/ \E p \in Executors, s \in SessionIds, t \in CallerTimeouts :
          APIExecute(p, s, "pass", t, TRUE)
    \/ \E p \in Managers, tbls \in SmallTables : CreateBegin(p, "create", tbls, TRUE)
    \/ \E p \in Procs : ProbeSend(p)
    \/ \E p \in Procs : ProbeRead(p)
    \/ \E p \in Procs : CreateInit(p, TRUE)
    \/ \E p \in Procs : CreateFail(p, TRUE)
    \/ \E p \in Procs : Register(p)
    \/ \E s \in SessionIds : KernelBoot(s)
    \/ Engine

SpecIso == InitIso /\ [][NextIso]_vars

\* one caller creates one session, with one table or several; the kernel may
\* come up late or never, die, and lose messages to abandoned reads
InitCreate == InitWith({}, {"c1"}, 0, "none") /\ FreshClock

NextCreate ==
    \/ \E p \in Procs, kind \in CreateKinds, ok \in BOOLEAN :
          \E tbls \in TableLists(kind) : CreateBegin(p, kind, tbls, ok)
    \/ \E p \in Procs : ProbeSend(p)
    \/ \E p \in Procs : ProbeRead(p)
    \/ \E p \in Procs, ok \in BOOLEAN : CreateInit(p, ok)
    \/ \E p \in Procs, ok \in BOOLEAN : CreateFail(p, ok)
    \/ \E p \in Procs, ok \in BOOLEAN : LoadNext(p, ok)
    \/ \E p \in Procs : Register(p)
    \/ \E p \in Procs : LoopTop(p)
    \/ \E p \in Procs : ReadMsg(p)
    \/ \E p \in Procs : ReadTimeout(p)
    \/ \E p \in Procs : DrainRound(p)
    \/ \E s \in SessionIds : KernelBoot(s)
    \/ \E s \in SessionIds : KernelStep(s)
    \/ \E s \in SessionIds : KernelDie(s)
    \/ \E s \in SessionIds : GhostRead(s)

SpecCreate == InitCreate /\ [][NextCreate]_vars

\* ------------------------------------------------------------------ claims
\* the messages of a script, as the kernel publishes them
Published(items) == SelectSeq(items, LAMBDA it : it.op = "msg")

\* has the kernel published the whole script of p's submission
KernelDone(p) ==
    /\ msgid[p] # NoId
    /\ \A i \in 1..Len(kreq[sess[p]]) : kreq[sess[p]][i].id # msgid[p]

RECURSIVE Values(_)
Values(items) ==
    IF items = <<>> THEN <<>> ELSE <<Head(items).v>> \o Values(Tail(items))

\* the stdout chunks the kernel publishes for a code, in order
StdoutOf(c) ==
    Values(SelectSeq(Published(Script(c)),
                     LAMBDA it : it.mt = "stream" /\ it.sub = "stdout"))

\* a call that was ended by an idle status, after the kernel finished its code
Completed(p) == pc[p] = "ret" /\ exit[p] = "idle" /\ KernelDone(p)

\* C1 (as stated): the result's stdout is exactly the stdout chunks the kernel
\* published for the submitted code, in order.
C1_StdoutExact ==
    \A p \in Procs : Completed(p) => outputs[p].stdout = StdoutOf(code[p])

\* C2 (as stated): at no time do two read loops work on the same session.
C2_OneReadLoop ==
    \A s \in SessionIds :
        Cardinality({p \in Procs : sess[p] = s /\ pc[p] \in {"top", "read", "drain"}}) <= 1

\* a call that left its loop because elapsed_time > timeout
EndedByTimeout(p) == pc[p] = "ret" /\ TimedOut(elapsed[p], timeout[p])

C4_NoLeftover ==
    \A p \in Procs : pc[p] = "ret" /\ prev[p] = "timeout" => foreign[p] = {}

\* C9 (as stated): when the kernel published an error for the submitted code the
\* result carries that error and no execution count.
C9_ErrorReported ==
    \A p \in Procs :
        Completed(p) /\ code[p].prog = "raise" =>
            /\ outputs[p].error = ErrorRecord("ZeroDivisionError", "evalue", "traceback")
            /\ outputs[p].execution_count = NoCount

\* C10 (as stated): code that renders one image returns exactly one data item,
\* which carries the image.
C10_OneImage ==
    \A p \in Procs :
        Completed(p) /\ code[p].prog = "image" =>
            outputs[p].data = <<[type |-> "display_data", data |-> "image/png"]>>

\* the create calls that have returned to their caller
Returned(p) == op[p] \in CreateKinds /\ pc[p] \in {"created", "failed"}

\* C5 (as stated): when create_session or create_multi_session returns, with a
\* session id or with an exception, no temporary file of the call exists.
C5_TempFileGone ==
    \A p \in Procs : Returned(p) => files = {}

\* the tables of the call that have reached the size test
Reached(p) == IF op[p] = "create" /\ pc[p] \in {"idle", "start", "probe", "init"}
              THEN {} ELSE 1..tix[p]

\* C6: a temporary file is written for a payload if and only if its length is
\* above 10 * 1024 * 1024; a payload of exactly that length is inline, and no
\* other temporary file is created during the call.
C6_TempFileIffAbove ==
    /\ \A p \in Procs :
          op[p] \in CreateKinds =>
             made[p] = {i \in Reached(p) : tables[p][i].size > 10 * 1024 * 1024}
    /\ nextFile - 1 = Cardinality({pi \in Procs \X (1..(MaxTables + 1)) : pi[2] \in made[pi[1]]})

\* C6 witness: create_multi_session has returned a session for a table of exactly
\* the threshold length followed by a table one byte longer; only the second
\* went through a temporary file
C6_Witness ==
    \E p \in Procs :
        /\ op[p] = "multi" /\ pc[p] = "created"
        /\ Len(tables[p]) = 2
        /\ tables[p][1].size = 10 * 1024 * 1024
        /\ tables[p][2].size = 10 * 1024 * 1024 + 1
        /\ made[p] = {2}

\* the results of the call's executions that carry an error
ErrorStages(p) == {i \in 1..Len(stages[p]) : stages[p][i] # "None"}

DrainWithinBounds(p) ==
    /\ pc[p] = "drain" =>
          /\ drain[p].wait_round < 50
          /\ drain[p].empty_rounds < 15
    /\ pc[p] = "ret" /\ exit[p] = "idle" =>
          /\ drain[p].wait_round <= 50
          /\ drain[p].total_collected = 0 =>
                drain[p].wait_round = 15 /\ drain[p].empty_rounds = 15

C12_BackstopIndependent ==
    \A p \in Procs :
        pc[p] \in {"top", "read", "ret"} => elapsed[p] <= ReadsPerSecond * 600 + 1

\* a call that is in its loops: submitted to a kernel that was alive
InFlight(p) == pc[p] \in {"top", "read", "drain"}

\* C13 (as stated): a call whose kernel died while the call was in flight
\* leaves its loop with error kind KernelCrashed and no other outcome.
C13_CrashReported ==
    [][\A p \in Procs :
          InFlight(p) /\ ~kalive[sess[p]] /\ pc'[p] = "ret" =>
             outputs'[p].error.ename = "KernelCrashed"]_vars

IsPrefix(a, b) == Len(a) <= Len(b) /\ \A i \in 1..Len(a) : a[i] = b[i]

\* a step of a call keeps every item the call has collected
KeepsCollected(p) ==
    InFlight(p) /\ (InFlight(p)' \/ pc'[p] = "ret") =>
        /\ IsPrefix(outputs[p].stdout, outputs'[p].stdout)
        /\ IsPrefix(outputs[p].stderr, outputs'[p].stderr)
        /\ IsPrefix(outputs[p].data, outputs'[p].data)

\* every way a call can fail shows in the error of its result
FailureInResult(p) ==
    /\ exit[p] = "dead" => outputs[p].error.ename = "KernelError"
    /\ exit[p] = "submitfail" => outputs[p].error.ename = "ExecutionError"
    /\ exit[p] = "timeout" => outputs[p].error.ename = "ExtremeLimitError"
    /\ exit[p] = "crash" => outputs[p].error.ename = "KernelCrashed"
    /\ KernelDone(p) /\ code[p].prog = "raise" => outputs[p].error # NoError

\* C15 (as stated): a call on a registered session returns a result; a dead
\* kernel, a failed submission, a timeout, a crash and an error reported by the
\* kernel are each in result.error, and the result keeps every stdout, stderr
\* and data item collected before the failure.
C15_FailuresInResult ==
    /\ [](\A p \in Procs : pc[p] = "ret" => FailureInResult(p))
    /\ [][\A p \in Procs : KeepsCollected(p)]_vars

\* the part of C15 about what was collected, on its own
C15_PartialOutputKept == [][\A p \in Procs : KeepsCollected(p)]_vars


\* an earlier close_session(id) has ended, by returning or by raising
ClosedBefore(id) == \E q \in Procs : reply[q].call = "close" /\ reply[q].id = id

\* C16: a close_session(id) after an earlier close_session(id), or on an id
\* that was never registered, changes no state, shuts down no kernel and
\* raises nothing
C16_CloseIdempotent ==
    [][\A p \in Procs, id \in RequestIds, stop_ok, grace_ok, kill_ok \in BOOLEAN :
          CloseSession(p, id, stop_ok, grace_ok, kill_ok) /\ (ClosedBefore(id) \/ id \notin used)
              => /\ UNCHANGED <<sessions, order, chan, kvars, iopub, created, kid, files>>
                 /\ reply'[p].out = "absent"]_vars

\* the same for an id that is not in the registry, which is where every
\* close_session that returns leaves its id
C16_AbsentCloseNoop ==
    /\ [][\A p \in Procs, id \in RequestIds, stop_ok, grace_ok, kill_ok \in BOOLEAN :
            CloseSession(p, id, stop_ok, grace_ok, kill_ok) /\ id \notin sessions
                => /\ UNCHANGED <<sessions, order, chan, kvars, iopub, created, kid, files>>
                   /\ reply'[p].out = "absent"]_vars
    /\ [](\A p \in Procs :
            reply[p].call = "close" /\ reply[p].out # "raised"
                => reply[p].id \notin sessions)

\* the other sessions keep their entry, their kernel and their channels
OthersKept(id) ==
    \A s \in SessionIds \ {id} :
        /\ s \in sessions' <=> s \in sessions
        /\ kalive'[s] = kalive[s]
        /\ chan'[s] = chan[s]
        /\ kid'[s] = kid[s]
        /\ created'[s] = created[s]

\* C17: after close_session on a registered id, returned or raised, the id is
\* not in the registry and its kernel is not alive, and the other sessions
\* are as they were
C17_CloseRemoves ==
    [][\A p \in Procs, id \in SessionIds, stop_ok, grace_ok, kill_ok \in BOOLEAN :
          CloseSession(p, id, stop_ok, grace_ok, kill_ok) /\ id \in sessions
              => id \notin sessions' /\ ~kalive'[id] /\ OthersKept(id)]_vars

\* the same for the calls that return
C17_ReturnedCloseRemoves ==
    [][\A p \in Procs, id \in SessionIds, stop_ok, grace_ok, kill_ok \in BOOLEAN :
          CloseSession(p, id, stop_ok, grace_ok, kill_ok) /\ id \in sessions
              /\ ~ShutdownRaises(kalive[id], stop_ok, grace_ok, kill_ok)
              => id \notin sessions' /\ ~kalive'[id] /\ OthersKept(id)]_vars

\* C18: execute for an id that is not in the registry is answered with
\* status 404, submits nothing to a kernel and leaves the registry as it was
C18_AbsentRejected ==
    [][\A p \in Procs, id \in RequestIds, e \in Endpoints :
          APIReject(p, id, e)
              => /\ reply'[p].out = "404"
                 /\ kreq' = kreq
                 /\ sessions' = sessions /\ order' = order]_vars

\* the same without the status
C18_AbsentSubmitsNothing ==
    [][\A p \in Procs, id \in RequestIds, e \in Endpoints :
          APIReject(p, id, e)
              => kreq' = kreq /\ sessions' = sessions /\ order' = order]_vars

\* the sessions older than max_age
Old(max_age) == {s \in sessions : now - created[s] > max_age}

\* C19: cleanup_old_sessions(max_age) removes the sessions older than max_age,
\* whose kernels are then not alive, and no other; the sessions that stay keep
\* their kernel and channels
C19_CleanupExact ==
    [][\A p \in Procs, max_age \in MaxAges, k \in 0..Cardinality(SessionIds),
         how \in [SessionIds -> Hows] :
          Cleanup(p, max_age, k, how)
              => /\ sessions' = sessions \ Old(max_age)
                 /\ \A s \in Old(max_age) : ~kalive'[s]
                 /\ \A s \in SessionIds \ Old(max_age) :
                        kalive'[s] = kalive[s] /\ chan'[s] = chan[s]]_vars

\* the same for the calls that return, and the younger sessions in any call
C19_ReturnedCleanupExact ==
    [][\A p \in Procs, max_age \in MaxAges, k \in 0..Cardinality(SessionIds),
         how \in [SessionIds -> Hows] :
          Cleanup(p, max_age, k, how)
              => /\ reply'[p].out = "done" =>
                        /\ sessions' = sessions \ Old(max_age)
                        /\ \A s \in Old(max_age) : ~kalive'[s]
                 /\ \A s \in SessionIds \ Old(max_age) :
                        /\ s \in sessions' <=> s \in sessions
                        /\ kalive'[s] = kalive[s] /\ chan'[s] = chan[s]]_vars


\* a caller inside execute_code, waiting for a message of its session
Reading(p) == pc[p] = "read" /\ sess[p] \in SessionIds

\* C20: the sessions of the registry have kernel processes of their own, no
\* two the same; the messages on a session's channel are those of its own
\* kernel, and a caller reading for one session takes a message from that
\* session's channel and from no other
C20_SessionsIsolated ==
    /\ [](\A s, t \in sessions : s # t => kid[s] # kid[t])
    /\ [](\A s \in sessions : kid[s] # NoKernel)
    /\ [](\A s \in SessionIds : \A i \in DOMAIN iopub[s] : iopub[s][i].src = kid[s])
    /\ [][\A p \in Procs :
            ReadMsg(p) => /\ Head(iopub[sess[p]]).src = kid[sess[p]]
                          /\ \A t \in SessionIds \ {sess[p]} : iopub'[t] = iopub[t]]_vars

\* the execute on the first session has returned on the idle status of its
\* own submission while the create of the second session was reading, with
\* messages of the second kernel on that session's channel
C20_Witness ==
    \E p \in Executors, q \in Managers :
        /\ pc[p] = "ret" /\ exit[p] = "idle" /\ foreign[p] = {}
        /\ Reading(q) /\ sess[q] # sess[p]
        /\ iopub[sess[q]] # <<>>
        /\ kid[sess[q]] \notin {NoKernel, kid[sess[p]]}


StartupWindow == TenthsPerSecond * StartupTimeout

C23_NoProbeLeftover ==
    \A p \in Procs :
        op[p] = "create" /\ pc[p] \in {"top", "read", "drain", "ret"} =>
            /\ foreign[p] = {}
            /\ pc[p] = "drain" => KernelDone(p)


\* the messages q routed one after the other as the main loop routes them
RECURSIVE RouteAll(_, _)
RouteAll(o, q) ==
    IF q = <<>> THEN o ELSE RouteAll(Route(o, Head(q)), Tail(q))

\* C24: the messages a call consumes, in the main loop and in the drain after
\* the idle status, are routed by type: stdout and stderr text appended to
\* their lists, execute_result appended to data with its execution count,
\* display_data appended to data, error stored as the error
C24_RoutedByType ==
    [][\A p \in Procs :
          /\ ReadMsg(p) => outputs'[p] = Route(outputs[p], Head(iopub[sess[p]]))
          /\ DrainRound(p) => outputs'[p] = RouteAll(outputs[p], iopub[sess[p]])]_vars

\* the same for the types the drain does handle, the execution count apart
C24_DrainRoutesCollected ==
    [][\A p \in Procs :
          DrainRound(p) =>
              LET q == SelectSeq(iopub[sess[p]], DrainCollects)
              IN [outputs'[p] EXCEPT !.execution_count = NoCount]
                    = [RouteAll(outputs[p], q) EXCEPT !.execution_count = NoCount]]_vars


\* the messages taken from the head of the session's channel in a step
TakenFrom(s) == SubSeq(iopub[s], 1, Len(iopub[s]) - Len(iopub'[s]))

\* the rounds of the drain loop: what is ready is collected, a collected
\* message resets the count of empty rounds, and the loop ends before its
\* 50 rounds only after 15 empty rounds in a row, or 10 once something was
\* collected
DrainRoundsAsStated ==
    [][\A p \in Procs :
          DrainRound(p) =>
              /\ outputs'[p] = DrainAll(outputs[p], iopub[sess[p]])
              /\ Collected(iopub[sess[p]]) > 0 => drain'[p].empty_rounds = 0
              /\ pc'[p] = "ret" =>
                    \/ drain'[p].wait_round = DrainRounds
                    \/ drain'[p].empty_rounds >= EmptyRoundsExit
                    \/ drain'[p].empty_rounds >= EmptyAfterCollected
                          /\ drain'[p].total_collected > 0]_vars

\* C25: the call does not return on reading the idle status; a stdout,
\* display_data or execute_result message that is on the channel between the
\* idle status and the end of the drain is in the result; a collected message
\* resets the count of empty rounds; the drain ends early only after 15 empty
\* rounds in a row, 10 once something was collected
C25_LateOutputCollected ==
    /\ DrainRoundsAsStated
    /\ [][\A p \in Procs :
            ReadMsg(p) /\ IsIdle(Head(iopub[sess[p]])) => pc'[p] = "drain"]_vars
    /\ [][\A p \in Procs :
            pc[p] = "drain" /\ Len(iopub'[sess[p]]) < Len(iopub[sess[p]])
                => outputs'[p] = DrainAll(outputs[p], TakenFrom(sess[p]))]_vars


WellFormed(q) == SelectSeq(q, LAMBDA m : m.form = "ok")

\* C26: a message that is not well-formed, or whose reading or routing raises,
\* leaves stdout, stderr, data, error and execution_count as they were and
\* does not end the loop that read it, the main loop or the drain
C26_NoiseSkipped ==
    /\ [][\A p \in Procs :
            ReadMsg(p) /\ Head(iopub[sess[p]]).form # "ok"
                => outputs'[p] = outputs[p] /\ pc'[p] = "top"]_vars
    /\ [][\A p \in Procs :
            DrainRound(p) =>
                /\ outputs'[p] = DrainAll(outputs[p], WellFormed(iopub[sess[p]]))
                /\ pc'[p] = "ret" => DrainExit(drain'[p])]_vars

\* the same with the execution count left aside in the main loop
C26_NoiseSkippedButCount ==
    /\ [][\A p \in Procs :
            ReadMsg(p) /\ Head(iopub[sess[p]]).form # "ok"
                => /\ [outputs'[p] EXCEPT !.execution_count = NoCount]
                        = [outputs[p] EXCEPT !.execution_count = NoCount]
                   /\ pc'[p] = "top"]_vars
    /\ [][\A p \in Procs :
            DrainRound(p) =>
                /\ outputs'[p] = DrainAll(outputs[p], WellFormed(iopub[sess[p]]))
                /\ pc'[p] = "ret" => DrainExit(drain'[p])]_vars


\* C27: shutdown stops the client channels before any request to end the
\* kernel; when stop_channels or the graceful shutdown_kernel raises, the
\* forced shutdown_kernel(now=True) is issued; once shutdown has returned the
\* kernel is not alive
C27_ShutdownOrder ==
    /\ [][\A s \in SessionIds : slog'[s] # <<>> =>
            /\ Head(slog'[s]) = "stop"
            /\ \A i \in 2..Len(slog'[s]) : slog'[s][i] \in {"graceful", "forced"}
            /\ \A i, j \in DOMAIN slog'[s] :
                   slog'[s][i] = "graceful" /\ slog'[s][j] = "forced" => i < j]_vars
    /\ [][\A p \in Managers, id \in SessionIds, stop_ok, grace_ok, kill_ok \in BOOLEAN :
            CloseSession(p, id, stop_ok, grace_ok, kill_ok) /\ Found(id) =>
                /\ ~stop_ok => "forced" \in Range(slog'[id])
                /\ "graceful" \in Range(slog'[id]) /\ ~grace_ok
                       => "forced" \in Range(slog'[id])
                /\ reply'[p].out = "done" => ~kalive'[id]
                /\ reply'[p].out = "raised" => "forced" \in Range(slog'[id])]_vars

C27_Witness ==
    \E p \in Managers :
        /\ reply[p] = [call |-> "close", id |-> "s2", out |-> "done"]
        /\ slog["s2"] = <<"stop", "graceful", "forced">>
        /\ ~kalive["s2"]
        /\ "s2" \notin sessions


\* C28: shutdown of a session whose kernel is already stopped issues no
\* request to end the kernel, raises nothing and leaves the kernel and the
\* channels as they were
C28_ShutdownIdempotent ==
    [][\A p \in Managers, id \in SessionIds, stop_ok, grace_ok, kill_ok \in BOOLEAN :
          CloseSession(p, id, stop_ok, grace_ok, kill_ok) /\ Found(id) /\ ~kalive[id] =>
              /\ slog'[id] = <<"stop">>
              /\ reply'[p].out = "done"
              /\ kalive'[id] = kalive[id]
              /\ ~chan[id] => chan'[id] = chan[id]]_vars

\* the same for the shutdowns in which stop_channels does not raise
C28_QuietShutdownNoop ==
    [][\A p \in Managers, id \in SessionIds, grace_ok, kill_ok \in BOOLEAN :
          CloseSession(p, id, TRUE, grace_ok, kill_ok) /\ Found(id) /\ ~kalive[id] =>
              /\ slog'[id] = <<"stop">>
              /\ reply'[p].out = "done"
              /\ kalive'[id] = kalive[id]
              /\ ~chan[id] => chan'[id] = chan[id]]_vars


\* a step of execute_code run for caller p, from the call to the return
ExecuteStep(p) ==
    \/ \E s \in SessionIds, prog \in LifePrograms, t \in CallerTimeouts :
          APIExecute(p, s, prog, t, TRUE)
    \/ LoopTop(p)
    \/ ReadMsg(p)
    \/ ReadTimeout(p)
    \/ ReadRaises(p)
    \/ DrainRound(p)
    \/ \E e \in 0..ReadsPerSecond * timeout[p] : DrainRaises(p, e)
    \/ APIReturn(p)

\* a step of close_session or of cleanup_old_sessions
RemovalStep ==
    \/ \E p \in Managers, id \in SessionIds, ok \in BOOLEAN : CloseSession(p, id, ok, ok, ok)
    \/ \E p \in Cleaners, max_age \in MaxAges, k \in 0..Cardinality(SessionIds) :
          Cleanup(p, max_age, k, [s \in SessionIds |-> "ok"])

Ended(p) ==
    /\ pc[p] = "ret"
    /\ \/ exit[p] \in {"timeout", "crash"}
       \/ outputs[p].error.ename # "None"

\* C29: no step of execute_code adds, removes or replaces a registry entry;
\* the session of an execute that ended in a timeout, an error of the kernel
\* or KernelCrashed is registered under its id unless a close or a cleanup
\* shut it down meanwhile; an entry leaves the registry only in a step of
\* close_session or cleanup_old_sessions
C29_ExecuteKeepsRegistry ==
    /\ [][\A p \in Procs : ExecuteStep(p) => UNCHANGED <<sessions, order, kid, created>>]_vars
    /\ [][sessions' # sessions \/ order' # order => RemovalStep]_vars
    /\ [](\A p \in Procs : Ended(p) => sess[p] \in sessions \/ slog[sess[p]] # <<>>)

C29_Witness ==
    \E p \in Executors :
        /\ pc[p] = "ret"
        /\ exit[p] = "timeout"
        /\ sess[p] = "s1"
        /\ sessions = {"s1"}
        /\ slog["s1"] = <<>>


\* the ids of the requests in the queue of session s
Queued(s) == {kreq[s][i].id : i \in DOMAIN kreq[s]}

\* the execute_code calls started so far under SpecCrash
Calls == MaxExecs + 1 - budget

\* C30: a request reaches a kernel only in the step that starts an
\* execute_code call, one request for the call, carrying its code; no later
\* step of the call submits anything, whatever its outcome; a call that finds
\* the kernel dead submits nothing
C30_SubmittedOnce ==
    /\ [](nextId - 1 <= Calls)
    /\ [][\A s \in SessionIds : Queued(s)' \ Queued(s) # {} =>
            \E p \in Procs :
                /\ pc[p] = "idle" /\ pc'[p] = "top" /\ sess'[p] = s
                /\ budget' = budget - 1
                /\ kreq'[s] = Append(kreq[s], [id |-> msgid'[p], code |-> code'[p]])
                /\ msgid'[p] \notin UNION {Queued(r) : r \in SessionIds}]_vars
    /\ [][\A p \in Procs : pc[p] \in {"top", "read", "drain", "ret"} =>
            /\ Queued(sess[p])' \subseteq Queued(sess[p])
            /\ nextId' = nextId]_vars
    /\ [][\A p \in Procs : pc[p] = "idle" /\ pc'[p] # "idle" /\ ~kalive[sess'[p]] =>
            /\ kreq' = kreq
            /\ nextId' = nextId
            /\ pc'[p] = "ret"
            /\ outputs'[p].error.ename = "KernelError"]_vars

C30_Witness ==
    \E p \in Procs :
        /\ budget = 0
        /\ pc[p] = "ret"
        /\ exit[p] = "dead"
        /\ prev[p] = "crash"
        /\ nextId = 2


\* C31: when create_session or create_multi_session has failed on the startup
\* timeout of start, the kernel process it launched is not alive and its
\* channels are stopped, so no kernel runs outside the registry once the call
\* has raised
C31_StartupFailureCleans ==
    \A p \in Procs :
        op[p] \in CreateKinds /\ pc[p] = "failed" /\ fail[p] = "startup" =>
            /\ ~kalive[sess[p]]
            /\ ~chan[sess[p]]

\* the same for the creations that fail after start has returned: the kernel
\* is shut down before the call raises
C31_LaterFailureCleans ==
    \A p \in Procs :
        op[p] \in CreateKinds /\ pc[p] = "failed" /\ fail[p] \in {"init", "load"} =>
            ~kalive[sess[p]]


\* the session was shut down by close_session or cleanup_old_sessions
ShutDown(s) == slog[s] # <<>> /\ ~chan[s] /\ ~kalive[s]

\* an execute_code call of p is between its submission and its return
Running(p) == op[p] = "execute" /\ pc[p] \in {"top", "read", "drain"}

ErrorReturned(p) == pc[p] = "ret" /\ outputs[p].error.ename # "None"

\* C32: an execute_code call that is running on a session when close_session
\* or cleanup_old_sessions shuts the session down returns a result with an
\* error; it takes no message from the stopped channels, never waits past
\* the pass of the loop in which its timeout check fires, and ends nowhere
\* but in its return
C32_ShutDownWhileRunning ==
    /\ \A p \in Executors : Running(p) /\ ShutDown(sess[p]) ~> ErrorReturned(p)
    /\ [](\A p \in Executors :
            /\ pc[p] \in {"idle", "top", "read", "drain", "ret"}
            /\ Running(p) => elapsed[p] <= ReadsPerSecond * timeout[p] + 1)
    /\ [][\A p \in Executors :
            Running(p) /\ ShutDown(sess[p]) =>
                /\ iopub'[sess[p]] = iopub[sess[p]] \/ ghosts'[sess[p]] < ghosts[sess[p]]
                /\ pc'[p] = "ret" => outputs'[p].error.ename \in {"ExtremeLimitError",
                                                                  "KernelCrashed"}]_vars

\* the session was shut down during a drain round of the call; the call went
\* back to the head of its loop and returned on its timeout check
C32_Witness ==
    \E p \in Executors :
        /\ ErrorReturned(p)
        /\ exit[p] = "timeout"
        /\ drain[p].wait_round > 0
        /\ ShutDown(sess[p])
        /\ sess[p] \notin sessions


\* C33: whatever the kernel publishes and whatever the timeout, an
\* execute_code call that is running reaches its return
C33_AlwaysReturns ==
    \A p \in Procs : Running(p) ~> (pc[p] = "ret")

\* the main loop is left whatever the kernel publishes: the call returns
\* from it or reads the idle status and goes on to the drain
C33_MainLoopEnds ==
    \A p \in Procs : (pc[p] \in {"top", "read"}) ~> (pc[p] \in {"drain", "ret"})


Steps(title) == Cardinality({i \in DOMAIN agent.steps : agent.steps[i].title = title})

\* C34: a run of the agent executes code at most max_retries times and fixes
\* it at most max_retries - 1 times, and it ends, with the status completed
\* or failed
C34_AgentBounded ==
    /\ [](/\ Steps("execute") <= max_retries
          /\ nextId - 1 <= Steps("execute")
          /\ Steps("fix") <= max_retries - 1
          /\ agent.current_retry <= max_retries
          /\ agent.pc = "done" <=> agent.status \in {"completed", "failed"})
    /\ <>(agent.pc = "done")

\* the third execution has failed after two fixes
C34_Witness ==
    /\ agent.pc = "done"
    /\ agent.status = "failed"
    /\ agent.current_retry = max_retries
    /\ Steps("execute") = max_retries
    /\ Steps("fix") = max_retries - 1

====
